---- MODULE Spec2Model ----
(***************************************************************************)
(* The one-shot result handoff of coio (src/src/join_handle.rs): a sender  *)
(* and a receiver share an unsynchronised cell and a single-notification   *)
(* barrier.  Producers and consumers are coroutines multiplexed over a     *)
(* pool of worker threads.                                                 *)
(***************************************************************************)
EXTENDS Integers, FiniteSets, Sequences, TLC

\* Bounds of the model: handle pairs of the scenarios "pairs" and "ordered",
\* stages of a promise chain, worker threads.
NPairs == 2
NStages == 3
MaxWorkers == 2

\* The scheduler runs with one worker thread (the default) or with several
\* (with_workers, test_join_handle_basic3).
WorkerCounts == {1, MaxWorkers}

Pairs == 1 .. NPairs
Stages == 1 .. NStages
\* Every result cell of the model.
Cells == 1 .. (IF NPairs > NStages THEN NPairs ELSE NStages)
\* Task p (1..NPairs) is the coroutine holding the sender of pair p.  In the
\* scenario "pairs" the receiver of pair p is held by task NPairs + p; in the
\* scenario "ordered" every receiver is held by task 0, which pops them in
\* index order (the `handles` vector of test_join_handle_basic2).
\* In the scenario "chain" task 0 builds a promise chain, task i runs the
\* work of stage i and sends to cell i, and the receiver of cell i is held by
\* stage i + 1, or by task 0 for the last stage.
MainTask == 0
Tasks == 0 .. (IF 2 * NPairs > NStages THEN 2 * NPairs ELSE NStages)

\* The values carried: a plain T of the join-handle tests, the Ok(t) and
\* Err(e) of a promise's Result<T, E>, the () of finally.
NoVal == [res |-> "-", n |-> 0]
Plain(n) == [res |-> "T", n |-> n]
ROk(n) == [res |-> "Ok", n |-> n]
RErr(n) == [res |-> "Err", n |-> n]
Unit == [res |-> "()", n |-> 0]
\* What the function given to Promise::spawn returns, and what the function
\* given to a combinator returns: values told apart from the former.
Results == {ROk(1), RErr(2)}
CombinatorResults == {ROk(3), RErr(4)}

\* thread::Result<T>: Ok(v) or Err(captured panic).
OkOf(v) == [tag |-> "Ok", val |-> v]
PanicErr == [tag |-> "Err", val |-> NoVal]
\* The outcomes the producers of the join-handle tests push.
Outcomes == {OkOf(Plain(1)), PanicErr}
\* The outcomes of the work of a promise.
PromiseOutcomes ==
    {OkOf(r) : r \in Results \cup CombinatorResults \cup {Unit}} \cup {PanicErr}
\* Option<thread::Result<T>>: None, or Some(outcome) written as the outcome.
None == [tag |-> "None", val |-> NoVal]
\* The cell while a non-atomic write of it is under way.
Torn == [tag |-> "Torn", val |-> NoVal]

VARIABLES
    scenario,   \* "pairs" | "ordered" | "chain"
    nworkers,   \* worker threads of the scheduler
    sched,      \* task -> "none" | "ready" | "running" | "blocked" | "finished"
    cons,       \* pair -> the task that holds its receiver
    data,       \* pair -> JoinHandleInner.data
    notified,   \* pair -> MonoBarrier notified
    broken,     \* pair -> the barrier reports a broken wait
    refs,       \* pair -> strong count of the Arc<JoinHandleInner>
    spc,        \* pair -> where the sender is
    rpc,        \* pair -> where the receiver is
    received,   \* pair -> JoinHandleReceiver.received
    pushed,     \* pair -> the `result` argument of push
    got,        \* pair -> what pop's take() read
    popped,     \* pair -> what pop returned
    writes,     \* pair -> completed writes of data by push
    notifies,   \* pair -> calls of barrier.notify()
    waits,      \* pair -> calls of barrier.wait() that returned
    how,        \* pair -> why Drop::drop of the receiver runs
    cleared,    \* pair -> times data went from occupied back to None
    term,       \* how the chain ends: "sync" (by itself or, once known, inside
                \* "finally_sync") | "finally"
    kind,       \* stage -> "spawn" | "then" | "chain" | "success" | "fail" | "finally"
    built,      \* stages spawned so far
    mpc,        \* where task 0 is
    stg,        \* stage -> where its work is
    arg,        \* stage -> the Result its join yielded
    fn,         \* stage (0: finally_sync) -> the user function invoked
    farg,       \* stage -> the argument it was invoked with
    fst,        \* stage -> "idle" | "running" | "returned" | "panicked"
    fret,       \* stage -> what the function returned
    out,        \* stage -> the outcome of the work, pushed by the spawn wrapper
    mres        \* the Result sync returned to task 0

vars == <<scenario, nworkers, sched, cons, data, notified, broken, refs, spc, rpc,
          received, pushed, got, popped, writes, notifies, waits, how, cleared,
          term, kind, built, mpc, stg, arg, fn, farg, fst, fret, out, mres>>

\* The state of the promise layer.
promVars == <<term, kind, built, mpc, stg, arg, fn, farg, fst, fret, out, mres>>

cellVars == <<data, notified, broken, refs, received, pushed, got, popped,
              writes, notifies, waits, how, cleared>>

----------------------------------------------------------------------------
\* Scheduler: at most nworkers coroutines run at a time; a coroutine keeps its
\* worker until it blocks or finishes.

\* An abort ends the process: nothing runs after it.
Aborted == \E p \in Cells : rpc[p] = "aborted"

Running(t) == sched[t] = "running" /\ ~Aborted

Busy == Cardinality({t \in Tasks : sched[t] = "running"})

\* A worker picks a ready coroutine.
Schedule(t) ==
    /\ UNCHANGED promVars
    /\ sched[t] = "ready"
    /\ ~Aborted
    /\ Busy < nworkers
    /\ sched' = [sched EXCEPT ![t] = "running"]
    /\ UNCHANGED <<scenario, nworkers, cons, spc, rpc>>
    /\ UNCHANGED cellVars

\* Mutant of Woken: notify marks the barrier but wakes nobody.
WokenNobody(s, p) == s

\* MonoBarrier::notify wakes the waiter of the barrier.
Woken(s, p) == [s EXCEPT ![cons[p]] = IF @ = "blocked" THEN "ready" ELSE @]

\* MonoBarrier::wait returns Ok once notified.
WaitReady(p) == notified[p]

\* MonoBarrier::wait reports a broken barrier.
WaitBroken(p) == ~notified[p] /\ broken[p]

\* MonoBarrier::wait suspends the calling coroutine and gives up the worker.
WaitBlocks(p) == ~notified[p] /\ ~broken[p]

RecvDone(p) == rpc[p] \in {"returned", "dropped", "panicked", "aborted"}

\* The receiver's holder has nothing left to do once receiver p is gone.
HolderEnds(p) ==
    /\ scenario # "chain"
    /\ \A q \in Pairs \ {p} : cons[q] = cons[p] => RecvDone(q)

Finish(s, t) == [s EXCEPT ![t] = "finished"]

----------------------------------------------------------------------------
\* JoinHandleSender::push

\* Mutant of PushStart: the barrier is notified before the cell is written.
PushStartNotifyFirst(p, v) ==
    /\ UNCHANGED promVars
    /\ Running(p)
    /\ spc[p] = "live"
    /\ spc' = [spc EXCEPT ![p] = "writing"]
    /\ pushed' = [pushed EXCEPT ![p] = v]
    /\ data' = [data EXCEPT ![p] = Torn]
    /\ notified' = [notified EXCEPT ![p] = TRUE]
    /\ sched' = [sched EXCEPT ![cons[p]] = IF @ = "blocked" THEN "ready" ELSE @]
    /\ UNCHANGED <<scenario, nworkers, cons, rpc, broken, refs,
                   received, got, popped, writes, notifies, waits, how, cleared>>

\* push is entered and the write of *data begins.
PushStart(p, v) ==
    /\ UNCHANGED promVars
    /\ Running(p)
    /\ spc[p] = "live"
    /\ spc' = [spc EXCEPT ![p] = "writing"]
    /\ pushed' = [pushed EXCEPT ![p] = v]
    /\ data' = [data EXCEPT ![p] = Torn]
    /\ UNCHANGED <<scenario, nworkers, sched, cons, rpc, notified, broken, refs,
                   received, got, popped, writes, notifies, waits, how, cleared>>

\* *data = Some(result) is complete.
PushWrite(p) ==
    /\ UNCHANGED promVars
    /\ Running(p)
    /\ spc[p] = "writing"
    /\ spc' = [spc EXCEPT ![p] = "written"]
    /\ data' = [data EXCEPT ![p] = pushed[p]]
    /\ writes' = [writes EXCEPT ![p] = @ + 1]
    /\ UNCHANGED <<scenario, nworkers, sched, cons, rpc, notified, broken, refs,
                   received, pushed, got, popped, notifies, waits, how, cleared>>

\* Mutant of PushNotify: push forgets to notify the barrier.
PushNotifyOmitted(p) ==
    /\ UNCHANGED promVars
    /\ Running(p)
    /\ spc[p] = "written"
    /\ spc' = [spc EXCEPT ![p] = "notified"]
    /\ UNCHANGED <<scenario, nworkers, sched, cons, rpc, data, notified, broken, refs,
                   received, pushed, got, popped, writes, notifies, waits, how,
                   cleared>>

\* Mutant of PushNotify: the sender gives up its reference to the cell as it
\* notifies, before push is over.
PushNotifyReleases(p) ==
    /\ UNCHANGED promVars
    /\ Running(p)
    /\ spc[p] = "written"
    /\ spc' = [spc EXCEPT ![p] = "notified"]
    /\ notified' = [notified EXCEPT ![p] = TRUE]
    /\ notifies' = [notifies EXCEPT ![p] = @ + 1]
    /\ refs' = [refs EXCEPT ![p] = @ - 1]
    /\ sched' = [sched EXCEPT ![cons[p]] = IF @ = "blocked" THEN "ready" ELSE @]
    /\ UNCHANGED <<scenario, nworkers, cons, rpc, data, broken,
                   received, pushed, got, popped, writes, waits, how, cleared>>

\* self.inner.barrier.notify()
PushNotify(p) ==
    /\ UNCHANGED promVars
    /\ Running(p)
    /\ spc[p] = "written"
    /\ spc' = [spc EXCEPT ![p] = "notified"]
    /\ notified' = [notified EXCEPT ![p] = TRUE]
    /\ notifies' = [notifies EXCEPT ![p] = @ + 1]
    /\ sched' = Woken(sched, p)
    /\ UNCHANGED <<scenario, nworkers, cons, rpc, data, broken, refs,
                   received, pushed, got, popped, writes, waits, how, cleared>>

\* Mutant of PushReturn: push borrows the sender instead of consuming it, so
\* the sender can push again.
PushReturnReusable(p) ==
    /\ UNCHANGED promVars
    /\ Running(p)
    /\ spc[p] = "notified"
    /\ spc' = [spc EXCEPT ![p] = "live"]
    /\ UNCHANGED <<scenario, nworkers, sched, cons, rpc, data, notified, broken, refs,
                   received, pushed, got, popped, writes, notifies, waits, how,
                   cleared>>

\* push returns: self (the sender's Arc) is dropped and the coroutine ends.
PushReturn(p) ==
    /\ UNCHANGED promVars
    /\ Running(p)
    /\ spc[p] = "notified"
    /\ spc' = [spc EXCEPT ![p] = "done"]
    /\ refs' = [refs EXCEPT ![p] = @ - 1]
    /\ sched' = Finish(sched, p)
    /\ UNCHANGED <<scenario, nworkers, cons, rpc, data, notified, broken,
                   received, pushed, got, popped, writes, notifies, waits, how, cleared>>

\* The sender is destroyed without push.  The barrier may or may not detect it.
SenderDrop(p, b) ==
    /\ UNCHANGED promVars
    /\ Running(p)
    /\ spc[p] = "live"
    /\ spc' = [spc EXCEPT ![p] = "dropped"]
    /\ refs' = [refs EXCEPT ![p] = @ - 1]
    /\ broken' = [broken EXCEPT ![p] = b]
    /\ sched' = IF b THEN Woken(Finish(sched, p), p) ELSE Finish(sched, p)
    /\ UNCHANGED <<scenario, nworkers, cons, rpc, data, notified,
                   received, pushed, got, popped, writes, notifies, waits, how, cleared>>

----------------------------------------------------------------------------
\* JoinHandleReceiver::pop

\* pop is entered.
PopCall(p) ==
    /\ UNCHANGED promVars
    /\ Running(cons[p])
    /\ rpc[p] = "held"
    /\ rpc' = [rpc EXCEPT ![p] = "pop_wait"]
    /\ UNCHANGED <<scenario, nworkers, sched, cons, spc>>
    /\ UNCHANGED cellVars

\* Mutant of PopWaitBlock: the wait blocks the worker thread instead of
\* suspending the coroutine.
PopWaitSpins(p) ==
    /\ Running(cons[p])
    /\ rpc[p] = "pop_wait"
    /\ ~notified[p] /\ ~broken[p]
    /\ UNCHANGED vars

\* self.inner.barrier.wait() suspends the coroutine.
PopWaitBlock(p) ==
    /\ UNCHANGED promVars
    /\ Running(cons[p])
    /\ rpc[p] = "pop_wait"
    /\ WaitBlocks(p)
    /\ sched' = [sched EXCEPT ![cons[p]] = "blocked"]
    /\ UNCHANGED <<scenario, nworkers, cons, spc, rpc>>
    /\ UNCHANGED cellVars

\* Mutant of PopWaitOk: pop reads the cell without waiting on the barrier.
PopNoWait(p) ==
    /\ UNCHANGED promVars
    /\ Running(cons[p])
    /\ rpc[p] = "pop_wait"
    /\ rpc' = [rpc EXCEPT ![p] = "pop_flag"]
    /\ UNCHANGED <<scenario, nworkers, sched, cons, spc>>
    /\ UNCHANGED cellVars

\* self.inner.barrier.wait().unwrap() returns.
PopWaitOk(p) ==
    /\ UNCHANGED promVars
    /\ Running(cons[p])
    /\ rpc[p] = "pop_wait"
    /\ WaitReady(p)
    /\ rpc' = [rpc EXCEPT ![p] = "pop_flag"]
    /\ waits' = [waits EXCEPT ![p] = @ + 1]
    /\ UNCHANGED <<scenario, nworkers, sched, cons, spc, data, notified, broken,
                   refs, received, pushed, got, popped, writes, notifies, how,
                   cleared>>

\* Mutant of PopWaitErr: a broken wait is folded into the outcome, as if the
\* producer had pushed Err(panic).
PopWaitErrAsOutcome(p) ==
    /\ UNCHANGED promVars
    /\ Running(cons[p])
    /\ rpc[p] = "pop_wait"
    /\ ~notified[p] /\ broken[p]
    /\ rpc' = [rpc EXCEPT ![p] = "drop_check"]
    /\ how' = [how EXCEPT ![p] = "pop"]
    /\ got' = [got EXCEPT ![p] = PanicErr]
    /\ received' = [received EXCEPT ![p] = TRUE]
    /\ waits' = [waits EXCEPT ![p] = @ + 1]
    /\ UNCHANGED <<scenario, nworkers, sched, cons, spc, data, notified, broken,
                   refs, pushed, popped, writes, notifies, cleared>>

\* Mutant of PopWaitErr: pop sets the received flag before it looks at the
\* result of the wait.
PopWaitErrSetsFlag(p) ==
    /\ UNCHANGED promVars
    /\ Running(cons[p])
    /\ rpc[p] = "pop_wait"
    /\ ~notified[p] /\ broken[p]
    /\ rpc' = [rpc EXCEPT ![p] = "drop_check"]
    /\ how' = [how EXCEPT ![p] = "unwind"]
    /\ received' = [received EXCEPT ![p] = TRUE]
    /\ waits' = [waits EXCEPT ![p] = @ + 1]
    /\ UNCHANGED <<scenario, nworkers, sched, cons, spc, data, notified, broken,
                   refs, pushed, got, popped, writes, notifies, cleared>>

\* self.inner.barrier.wait().unwrap() panics: self is dropped by the unwinding.
PopWaitErr(p) ==
    /\ UNCHANGED promVars
    /\ Running(cons[p])
    /\ rpc[p] = "pop_wait"
    /\ WaitBroken(p)
    /\ rpc' = [rpc EXCEPT ![p] = "drop_check"]
    /\ how' = [how EXCEPT ![p] = "unwind"]
    /\ waits' = [waits EXCEPT ![p] = @ + 1]
    /\ UNCHANGED <<scenario, nworkers, sched, cons, spc, data, notified, broken,
                   refs, received, pushed, got, popped, writes, notifies, cleared>>

\* Mutant of PopSetReceived: pop leaves the received flag as it is.
PopSetReceivedOmitted(p) ==
    /\ UNCHANGED promVars
    /\ Running(cons[p])
    /\ rpc[p] = "pop_flag"
    /\ rpc' = [rpc EXCEPT ![p] = "pop_take"]
    /\ UNCHANGED <<scenario, nworkers, sched, cons, spc>>
    /\ UNCHANGED cellVars

\* self.received = true
PopSetReceived(p) ==
    /\ UNCHANGED promVars
    /\ Running(cons[p])
    /\ rpc[p] = "pop_flag"
    /\ rpc' = [rpc EXCEPT ![p] = "pop_take"]
    /\ received' = [received EXCEPT ![p] = TRUE]
    /\ UNCHANGED <<scenario, nworkers, sched, cons, spc, data, notified, broken,
                   refs, pushed, got, popped, writes, notifies, waits, how,
                   cleared>>

\* What a read of the cell yields: its content, or anything while it is being
\* written (a data race).
ReadOf(d) == IF d = Torn THEN Outcomes \cup PromiseOutcomes \cup {None} ELSE {d}

\* data.take() reads the cell.
PopTakeRead(p) ==
    /\ UNCHANGED promVars
    /\ Running(cons[p])
    /\ rpc[p] = "pop_take"
    /\ rpc' = [rpc EXCEPT ![p] = "taking"]
    /\ \E d \in ReadOf(data[p]) : got' = [got EXCEPT ![p] = d]
    /\ UNCHANGED <<scenario, nworkers, sched, cons, spc, data, notified, broken,
                   refs, received, pushed, popped, writes, notifies, waits, how,
                   cleared>>

\* data.take() leaves None in the cell.
PopTakeClear(p) ==
    /\ UNCHANGED promVars
    /\ Running(cons[p])
    /\ rpc[p] = "taking"
    /\ rpc' = [rpc EXCEPT ![p] = "taken"]
    /\ data' = [data EXCEPT ![p] = None]
    /\ cleared' = [cleared EXCEPT ![p] = IF data[p] = None THEN @ ELSE @ + 1]
    /\ UNCHANGED <<scenario, nworkers, sched, cons, spc, notified, broken,
                   refs, received, pushed, got, popped, writes, notifies, waits,
                   how>>

\* .unwrap() of what take() read: the outcome pop returns, or a panic on None.
\* Either way self goes out of scope and Drop::drop runs.
PopUnwrap(p) ==
    /\ UNCHANGED promVars
    /\ Running(cons[p])
    /\ rpc[p] = "taken"
    /\ rpc' = [rpc EXCEPT ![p] = "drop_check"]
    /\ how' = [how EXCEPT ![p] = IF got[p] = None THEN "unwind" ELSE "pop"]
    /\ UNCHANGED <<scenario, nworkers, sched, cons, spc, data, notified, broken,
                   refs, received, pushed, got, popped, writes, notifies, waits,
                   cleared>>

----------------------------------------------------------------------------
\* Drop for JoinHandleReceiver

\* The receiver goes out of scope without pop: Drop::drop is entered.
DropCall(p) ==
    /\ UNCHANGED promVars
    /\ Running(cons[p])
    /\ rpc[p] = "held"
    /\ rpc' = [rpc EXCEPT ![p] = "drop_check"]
    /\ how' = [how EXCEPT ![p] = "drop"]
    /\ UNCHANGED <<scenario, nworkers, sched, cons, spc, data, notified, broken,
                   refs, received, pushed, got, popped, writes, notifies, waits,
                   cleared>>

\* Mutant of DropCheck: drop never waits.
DropCheckNoWait(p) ==
    /\ UNCHANGED promVars
    /\ Running(cons[p])
    /\ rpc[p] = "drop_check"
    /\ rpc' = [rpc EXCEPT ![p] = "drop_end"]
    /\ UNCHANGED <<scenario, nworkers, sched, cons, spc>>
    /\ UNCHANGED cellVars

\* if !self.received
DropCheck(p) ==
    /\ UNCHANGED promVars
    /\ Running(cons[p])
    /\ rpc[p] = "drop_check"
    /\ rpc' = [rpc EXCEPT ![p] = IF received[p] THEN "drop_end" ELSE "drop_wait"]
    /\ UNCHANGED <<scenario, nworkers, sched, cons, spc>>
    /\ UNCHANGED cellVars

\* self.inner.barrier.wait() suspends the coroutine.
DropWaitBlock(p) ==
    /\ UNCHANGED promVars
    /\ Running(cons[p])
    /\ rpc[p] = "drop_wait"
    /\ WaitBlocks(p)
    /\ sched' = [sched EXCEPT ![cons[p]] = "blocked"]
    /\ UNCHANGED <<scenario, nworkers, cons, spc, rpc>>
    /\ UNCHANGED cellVars

\* self.inner.barrier.wait().unwrap() returns.
DropWaitOk(p) ==
    /\ UNCHANGED promVars
    /\ Running(cons[p])
    /\ rpc[p] = "drop_wait"
    /\ WaitReady(p)
    /\ rpc' = [rpc EXCEPT ![p] = "drop_flag"]
    /\ waits' = [waits EXCEPT ![p] = @ + 1]
    /\ UNCHANGED <<scenario, nworkers, sched, cons, spc, data, notified, broken,
                   refs, received, pushed, got, popped, writes, notifies, how,
                   cleared>>

\* self.inner.barrier.wait().unwrap() panics inside drop: a panic of the
\* coroutine, or an abort when drop was already running for a panic.
DropWaitErr(p) ==
    /\ UNCHANGED promVars
    /\ Running(cons[p])
    /\ rpc[p] = "drop_wait"
    /\ WaitBroken(p)
    /\ rpc' = [rpc EXCEPT ![p] = IF how[p] = "unwind" THEN "aborted" ELSE "panicked"]
    /\ waits' = [waits EXCEPT ![p] = @ + 1]
    /\ refs' = [refs EXCEPT ![p] = @ - 1]
    /\ sched' = IF HolderEnds(p) THEN Finish(sched, cons[p]) ELSE sched
    /\ UNCHANGED <<scenario, nworkers, cons, spc, data, notified, broken,
                   received, pushed, got, popped, writes, notifies, how, cleared>>

\* self.received = true
DropSetReceived(p) ==
    /\ UNCHANGED promVars
    /\ Running(cons[p])
    /\ rpc[p] = "drop_flag"
    /\ rpc' = [rpc EXCEPT ![p] = "drop_end"]
    /\ received' = [received EXCEPT ![p] = TRUE]
    /\ UNCHANGED <<scenario, nworkers, sched, cons, spc, data, notified, broken,
                   refs, pushed, got, popped, writes, notifies, waits, how,
                   cleared>>

\* Mutant of DropEnd: drop empties the cell to discard the value.
DropEndClears(p) ==
    /\ UNCHANGED promVars
    /\ Running(cons[p])
    /\ rpc[p] = "drop_end"
    /\ rpc' = [rpc EXCEPT ![p] = CASE how[p] = "pop" -> "returned"
                                   [] how[p] = "unwind" -> "panicked"
                                   [] OTHER -> "dropped"]
    /\ popped' = [popped EXCEPT ![p] = IF how[p] = "pop" THEN got[p] ELSE @]
    /\ data' = [data EXCEPT ![p] = None]
    /\ refs' = [refs EXCEPT ![p] = @ - 1]
    /\ sched' = IF HolderEnds(p) THEN Finish(sched, cons[p]) ELSE sched
    /\ UNCHANGED <<scenario, nworkers, cons, spc, notified, broken,
                   received, pushed, got, writes, notifies, waits, how, cleared>>

\* drop returns and the receiver's Arc is released: pop hands its outcome to
\* the caller, a plain drop is over, a panic goes on unwinding.
DropEnd(p) ==
    /\ UNCHANGED promVars
    /\ Running(cons[p])
    /\ rpc[p] = "drop_end"
    /\ rpc' = [rpc EXCEPT ![p] = CASE how[p] = "pop" -> "returned"
                                   [] how[p] = "unwind" -> "panicked"
                                   [] OTHER -> "dropped"]
    /\ popped' = [popped EXCEPT ![p] = IF how[p] = "pop" THEN got[p] ELSE @]
    /\ refs' = [refs EXCEPT ![p] = @ - 1]
    /\ sched' = IF HolderEnds(p) THEN Finish(sched, cons[p]) ELSE sched
    /\ UNCHANGED <<scenario, nworkers, cons, spc, data, notified, broken,
                   received, pushed, got, writes, notifies, waits, how, cleared>>

----------------------------------------------------------------------------
\* handle_pair: one cell, empty and not notified, shared by the two ends.
NewCells ==
    /\ data = [p \in Cells |-> None]
    /\ notified = [p \in Cells |-> FALSE]
    /\ broken = [p \in Cells |-> FALSE]
    /\ refs = [p \in Cells |-> 2]
    /\ received = [p \in Cells |-> FALSE]
    /\ spc = [p \in Cells |-> "live"]
    /\ rpc = [p \in Cells |-> "held"]
    /\ pushed = [p \in Cells |-> None]
    /\ got = [p \in Cells |-> None]
    /\ popped = [p \in Cells |-> None]
    /\ how = [p \in Cells |-> "none"]
    /\ writes = [p \in Cells |-> 0]
    /\ notifies = [p \in Cells |-> 0]
    /\ waits = [p \in Cells |-> 0]
    /\ cleared = [p \in Cells |-> 0]

\* The promise layer at rest.
NoPromise ==
    /\ term = "none"
    /\ kind = [i \in Stages |-> "none"]
    /\ built = 0
    /\ mpc = "none"
    /\ stg = [i \in Stages |-> "none"]
    /\ arg = [i \in Stages |-> NoVal]
    /\ fn = [i \in 0 .. NStages |-> "none"]
    /\ farg = [i \in 0 .. NStages |-> NoVal]
    /\ fst = [i \in 0 .. NStages |-> "idle"]
    /\ fret = [i \in 0 .. NStages |-> NoVal]
    /\ out = [i \in Stages |-> None]
    /\ mres = NoVal

\* Who holds the receiver of pair p in the scenarios of the join-handle tests.
Holder(sc, p) == IF sc = "ordered" THEN MainTask ELSE NPairs + p

\* The join-handle tests: every pair has a producer coroutine; the receivers
\* are held by one coroutine each ("pairs") or all by task 0 ("ordered").
Init ==
    /\ scenario \in {"pairs", "ordered"}
    /\ nworkers \in WorkerCounts
    /\ cons = [p \in Cells |-> IF p \in Pairs THEN Holder(scenario, p) ELSE MainTask]
    /\ sched = [t \in Tasks |->
                  IF t \in Pairs \/ (\E p \in Pairs : cons[p] = t)
                  THEN "ready" ELSE "none"]
    /\ NewCells
    /\ NoPromise

\* The producer destroys the sender without a push (not in "ordered", where
\* every producer pushes, as in test_join_handle_basic2).
ProducerDrop(p, b) == scenario = "pairs" /\ SenderDrop(p, b)

\* The holder pops; in "ordered" the receivers are popped in index order.
HolderPop(p) ==
    /\ scenario = "ordered" => \A q \in Pairs : q < p => RecvDone(q)
    /\ PopCall(p)

\* The holder lets the receiver go out of scope without a pop.
HolderDrop(p) == scenario = "pairs" /\ DropCall(p)

Next ==
    \/ \E t \in Tasks : Schedule(t)
    \/ \E p \in Pairs, v \in Outcomes : PushStart(p, v)
    \/ \E p \in Pairs : PushWrite(p)
    \/ \E p \in Pairs : PushNotify(p)
    \/ \E p \in Pairs : PushReturn(p)
    \/ \E p \in Pairs, b \in BOOLEAN : ProducerDrop(p, b)
    \/ \E p \in Pairs : HolderPop(p)
    \/ \E p \in Pairs : PopWaitBlock(p)
    \/ \E p \in Pairs : PopWaitOk(p)
    \/ \E p \in Pairs : PopWaitErr(p)
    \/ \E p \in Pairs : PopSetReceived(p)
    \/ \E p \in Pairs : PopTakeRead(p)
    \/ \E p \in Pairs : PopTakeClear(p)
    \/ \E p \in Pairs : PopUnwrap(p)
    \/ \E p \in Pairs : HolderDrop(p)
    \/ \E p \in Pairs : DropCheck(p)
    \/ \E p \in Pairs : DropWaitBlock(p)
    \/ \E p \in Pairs : DropWaitOk(p)
    \/ \E p \in Pairs : DropWaitErr(p)
    \/ \E p \in Pairs : DropSetReceived(p)
    \/ \E p \in Pairs : DropEnd(p)

Spec == Init /\ [][Next]_vars

\* The scheduler keeps running coroutines while one can take a step.
FairSpec == Spec /\ WF_vars(Next)

----------------------------------------------------------------------------
\* Promise (src/src/promise.rs).  Scheduler::spawn(f) makes a handle pair,
\* queues a coroutine that runs f, catches its panic and pushes the outcome,
\* and returns a JoinHandle around the receiver; JoinHandle::join is pop.

LastStage == NStages

\* Task 0 calls Promise::spawn or a combinator: Scheduler::spawn queues the
\* coroutine of the next stage.  After the last one task 0 goes on to sync, or,
\* inside finally, to the end of the statement that discards the handle.
MainSpawn ==
    /\ Running(MainTask)
    /\ mpc = "build"
    /\ built < NStages
    /\ built' = built + 1
    /\ sched' = [sched EXCEPT ![built + 1] = "ready"]
    /\ stg' = [stg EXCEPT ![built + 1] = "start"]
    /\ mpc' = IF built + 1 < NStages THEN "build"
              ELSE IF term = "finally" THEN "discard" ELSE "sync"
    /\ UNCHANGED <<scenario, nworkers, cons, spc, rpc, term, kind, arg, fn, farg,
                   fst, fret, out, mres>>
    /\ UNCHANGED cellVars

\* The work of Promise::spawn(f) calls f.
StageCallSpawned(i) ==
    /\ Running(i)
    /\ kind[i] = "spawn"
    /\ stg[i] = "start"
    /\ stg' = [stg EXCEPT ![i] = "calling"]
    /\ fn' = [fn EXCEPT ![i] = "f"]
    /\ farg' = [farg EXCEPT ![i] = Unit]
    /\ fst' = [fst EXCEPT ![i] = "running"]
    /\ UNCHANGED <<scenario, nworkers, sched, cons, spc, rpc, term, kind, built,
                   mpc, arg, fret, out, mres>>
    /\ UNCHANGED cellVars

\* JoinHandle::join is the pop of the receiver the handle wraps.
Join(p) == PopCall(p)

\* The drop of a JoinHandle is the drop of the receiver it wraps.
HandleDrop(p) == DropCall(p)

\* Mutant of Route: then picks its function the wrong way round.
RouteThenSwapped(k, r) ==
    CASE k = "then" ->
            IF r.res = "Ok" THEN [fn |-> "fe", arg |-> Plain(r.n), pass |-> NoVal]
            ELSE [fn |-> "ft", arg |-> Plain(r.n), pass |-> NoVal]
      [] k = "success" ->
            IF r.res = "Ok" THEN [fn |-> "f", arg |-> Plain(r.n), pass |-> NoVal]
            ELSE [fn |-> "none", arg |-> NoVal, pass |-> RErr(r.n)]
      [] k = "fail" ->
            IF r.res = "Ok" THEN [fn |-> "none", arg |-> NoVal, pass |-> ROk(r.n)]
            ELSE [fn |-> "f", arg |-> Plain(r.n), pass |-> NoVal]
      [] OTHER -> [fn |-> "f", arg |-> r, pass |-> NoVal]

\* Mutant of Route: success and fail call f on the variant they should pass on.
RouteNoPassThrough(k, r) ==
    CASE k = "then" ->
            IF r.res = "Ok" THEN [fn |-> "ft", arg |-> Plain(r.n), pass |-> NoVal]
            ELSE [fn |-> "fe", arg |-> Plain(r.n), pass |-> NoVal]
      [] k \in {"success", "fail"} -> [fn |-> "f", arg |-> Plain(r.n), pass |-> NoVal]
      [] OTHER -> [fn |-> "f", arg |-> r, pass |-> NoVal]

\* Mutant of Route: chain hands f the Ok value only and passes an Err on.
RouteChainOkOnly(k, r) ==
    CASE k = "then" ->
            IF r.res = "Ok" THEN [fn |-> "ft", arg |-> Plain(r.n), pass |-> NoVal]
            ELSE [fn |-> "fe", arg |-> Plain(r.n), pass |-> NoVal]
      [] k \in {"success", "chain"} ->
            IF r.res = "Ok" THEN [fn |-> "f", arg |-> Plain(r.n), pass |-> NoVal]
            ELSE [fn |-> "none", arg |-> NoVal, pass |-> RErr(r.n)]
      [] k = "fail" ->
            IF r.res = "Ok" THEN [fn |-> "none", arg |-> NoVal, pass |-> ROk(r.n)]
            ELSE [fn |-> "f", arg |-> Plain(r.n), pass |-> NoVal]
      [] OTHER -> [fn |-> "f", arg |-> r, pass |-> NoVal]

\* What a combinator does with the predecessor's Result r: the function it
\* invokes and with what, or (fn "none") the Result it passes on.
Route(k, r) ==
    CASE k = "then" ->
            IF r.res = "Ok" THEN [fn |-> "ft", arg |-> Plain(r.n), pass |-> NoVal]
            ELSE [fn |-> "fe", arg |-> Plain(r.n), pass |-> NoVal]
      [] k = "success" ->
            IF r.res = "Ok" THEN [fn |-> "f", arg |-> Plain(r.n), pass |-> NoVal]
            ELSE [fn |-> "none", arg |-> NoVal, pass |-> RErr(r.n)]
      [] k = "fail" ->
            IF r.res = "Ok" THEN [fn |-> "none", arg |-> NoVal, pass |-> ROk(r.n)]
            ELSE [fn |-> "f", arg |-> Plain(r.n), pass |-> NoVal]
      [] OTHER -> [fn |-> "f", arg |-> r, pass |-> NoVal]

\* The closure of a combinator goes on with the Result r of its predecessor:
\* it invokes a function or passes the Result on.
Dispatch(i, r) ==
    /\ arg' = [arg EXCEPT ![i] = r]
    /\ LET d == Route(kind[i], r) IN
       IF d.fn = "none"
       THEN /\ stg' = [stg EXCEPT ![i] = "result"]
            /\ out' = [out EXCEPT ![i] = OkOf(d.pass)]
            /\ UNCHANGED <<fn, farg, fst>>
       ELSE /\ stg' = [stg EXCEPT ![i] = "calling"]
            /\ fn' = [fn EXCEPT ![i] = d.fn]
            /\ farg' = [farg EXCEPT ![i] = d.arg]
            /\ fst' = [fst EXCEPT ![i] = "running"]
            /\ out' = out

\* Mutant of StageJoin: the closure does not join its predecessor and calls
\* its function right away, on a Result made up.
StageNoJoin(i) ==
    /\ Running(i)
    /\ kind[i] # "spawn"
    /\ stg[i] = "start"
    /\ rpc[i - 1] = "held"
    /\ rpc' = [rpc EXCEPT ![i - 1] = "returned"]
    /\ Dispatch(i, ROk(1))
    /\ UNCHANGED <<scenario, nworkers, sched, cons, spc, term, kind, built,
                   mpc, fret, mres>>
    /\ UNCHANGED cellVars

\* The work of a combinator begins with self.join_handle.join().
StageJoin(i) ==
    /\ kind[i] # "spawn"
    /\ stg[i] = "start"
    /\ Join(i - 1)

\* Mutant of StageUnwrap: a captured panic of the predecessor is turned into
\* an Err of the predecessor's Result.
StageUnwrapFoldsPanic(i) ==
    /\ Running(i)
    /\ kind[i] # "spawn"
    /\ stg[i] = "start"
    /\ rpc[i - 1] = "returned"
    /\ Dispatch(i, IF popped[i - 1] = PanicErr THEN RErr(2) ELSE popped[i - 1].val)
    /\ UNCHANGED <<scenario, nworkers, sched, cons, spc, rpc, term, kind, built,
                   mpc, fret, mres>>
    /\ UNCHANGED cellVars

\* match self.join_handle.join().unwrap() { .. }: with the predecessor's Result
\* the closure goes on; when the predecessor's work panicked the unwrap panics,
\* which the spawn wrapper captures as the outcome of this work.
StageUnwrap(i) ==
    /\ Running(i)
    /\ kind[i] # "spawn"
    /\ stg[i] = "start"
    /\ rpc[i - 1] = "returned"
    /\ IF popped[i - 1] = PanicErr
       THEN /\ stg' = [stg EXCEPT ![i] = "result"]
            /\ out' = [out EXCEPT ![i] = PanicErr]
            /\ UNCHANGED <<arg, fn, farg, fst>>
       ELSE Dispatch(i, popped[i - 1].val)
    /\ UNCHANGED <<scenario, nworkers, sched, cons, spc, rpc, term, kind, built,
                   mpc, fret, mres>>
    /\ UNCHANGED cellVars

\* What the user function of a stage may return.
Returns(k) ==
    CASE k = "finally" -> {Unit}
      [] k = "spawn" -> Results
      [] OTHER -> CombinatorResults

\* The user function returns r: the outcome of the work is Ok(r).
StageFnReturn(i, r) ==
    /\ Running(i)
    /\ stg[i] = "calling"
    /\ r \in Returns(kind[i])
    /\ stg' = [stg EXCEPT ![i] = "result"]
    /\ fst' = [fst EXCEPT ![i] = "returned"]
    /\ fret' = [fret EXCEPT ![i] = r]
    /\ out' = [out EXCEPT ![i] = OkOf(r)]
    /\ UNCHANGED <<scenario, nworkers, sched, cons, spc, rpc, term, kind, built,
                   mpc, arg, fn, farg, mres>>
    /\ UNCHANGED cellVars

\* The user function panics: the spawn wrapper captures it as the outcome.
StageFnPanic(i) ==
    /\ Running(i)
    /\ stg[i] = "calling"
    /\ stg' = [stg EXCEPT ![i] = "result"]
    /\ fst' = [fst EXCEPT ![i] = "panicked"]
    /\ out' = [out EXCEPT ![i] = PanicErr]
    /\ UNCHANGED <<scenario, nworkers, sched, cons, spc, rpc, term, kind, built,
                   mpc, arg, fn, farg, fret, mres>>
    /\ UNCHANGED cellVars

\* The spawn wrapper pushes the outcome of the work.
StagePush(i) ==
    /\ stg[i] = "result"
    /\ PushStart(i, out[i])

\* Promise::sync: self.join_handle.join()
MainSync ==
    /\ mpc = "sync"
    /\ Join(LastStage)

\* Mutant of MainSyncUnwrap: sync hands a captured panic to its caller as an
\* Err of the Result.
MainSyncUnwrapFoldsPanic ==
    /\ Running(MainTask)
    /\ mpc = "sync"
    /\ rpc[LastStage] = "returned"
    /\ mpc' = "synced"
    /\ mres' = IF popped[LastStage] = PanicErr THEN RErr(2) ELSE popped[LastStage].val
    /\ UNCHANGED <<scenario, nworkers, sched, cons, spc, rpc, term, kind, built, stg,
                   arg, fn, farg, fst, fret, out>>
    /\ UNCHANGED cellVars

\* .unwrap() in sync: sync returns the Result, or its caller panics.
MainSyncUnwrap ==
    /\ Running(MainTask)
    /\ mpc = "sync"
    /\ rpc[LastStage] = "returned"
    /\ IF popped[LastStage] = PanicErr
       THEN /\ mpc' = "panicked"
            /\ sched' = Finish(sched, MainTask)
            /\ mres' = mres
       ELSE /\ mpc' = "synced"
            /\ sched' = sched
            /\ mres' = popped[LastStage].val
    /\ UNCHANGED <<scenario, nworkers, cons, spc, rpc, term, kind, built, stg, arg,
                   fn, farg, fst, fret, out>>
    /\ UNCHANGED cellVars

\* The sync was the caller's own: the caller has the Result.
SyncReturn ==
    /\ Running(MainTask)
    /\ mpc = "synced"
    /\ mpc' = "done"
    /\ term' = "sync"
    /\ sched' = Finish(sched, MainTask)
    /\ UNCHANGED <<scenario, nworkers, cons, spc, rpc, kind, built, stg, arg,
                   fn, farg, fst, fret, out, mres>>
    /\ UNCHANGED cellVars

\* Mutant of FinallySyncCall: finally_sync returns to its caller without having
\* run f (as if f had been handed to a coroutine of its own).
FinallySyncDefersF ==
    /\ Running(MainTask)
    /\ mpc = "synced"
    /\ mpc' = "done"
    /\ term' = "finally_sync"
    /\ fn' = [fn EXCEPT ![0] = "f"]
    /\ farg' = [farg EXCEPT ![0] = mres]
    /\ fst' = [fst EXCEPT ![0] = "running"]
    /\ sched' = Finish(sched, MainTask)
    /\ UNCHANGED <<scenario, nworkers, cons, spc, rpc, kind, built, stg, arg,
                   fret, out, mres>>
    /\ UNCHANGED cellVars

\* The sync was the one of finally_sync(f): f(self.sync()) goes on to call f.
FinallySyncCall ==
    /\ Running(MainTask)
    /\ mpc = "synced"
    /\ mpc' = "fs_call"
    /\ term' = "finally_sync"
    /\ fn' = [fn EXCEPT ![0] = "f"]
    /\ farg' = [farg EXCEPT ![0] = mres]
    /\ fst' = [fst EXCEPT ![0] = "running"]
    /\ UNCHANGED <<scenario, nworkers, sched, cons, spc, rpc, kind, built, stg, arg,
                   fret, out, mres>>
    /\ UNCHANGED cellVars

\* finally_sync: f returns in the caller's context.
MainFnReturn ==
    /\ Running(MainTask)
    /\ mpc = "fs_call"
    /\ mpc' = "done"
    /\ fst' = [fst EXCEPT ![0] = "returned"]
    /\ fret' = [fret EXCEPT ![0] = Unit]
    /\ sched' = Finish(sched, MainTask)
    /\ UNCHANGED <<scenario, nworkers, cons, spc, rpc, term, kind, built, stg, arg,
                   fn, farg, out, mres>>
    /\ UNCHANGED cellVars

\* finally_sync: f panics in the caller's context.
MainFnPanic ==
    /\ Running(MainTask)
    /\ mpc = "fs_call"
    /\ mpc' = "panicked"
    /\ fst' = [fst EXCEPT ![0] = "panicked"]
    /\ sched' = Finish(sched, MainTask)
    /\ UNCHANGED <<scenario, nworkers, cons, spc, rpc, term, kind, built, stg, arg,
                   fn, farg, fret, out, mres>>
    /\ UNCHANGED cellVars

\* Mutant of FinallyDiscard: the handle is forgotten, its drop never runs.
FinallyForgets ==
    /\ Running(MainTask)
    /\ mpc = "discard"
    /\ rpc[LastStage] = "held"
    /\ rpc' = [rpc EXCEPT ![LastStage] = "dropped"]
    /\ how' = [how EXCEPT ![LastStage] = "drop"]
    /\ UNCHANGED <<scenario, nworkers, sched, cons, spc, data, notified, broken,
                   refs, received, pushed, got, popped, writes, notifies, waits,
                   cleared>>
    /\ UNCHANGED promVars

\* finally: the JoinHandle that Scheduler::spawn returned is a temporary,
\* dropped at the end of the statement.
FinallyDiscard ==
    /\ mpc = "discard"
    /\ HandleDrop(LastStage)

\* finally returns once the drop of the handle is over.
FinallyReturn ==
    /\ Running(MainTask)
    /\ mpc = "discard"
    /\ rpc[LastStage] = "dropped"
    /\ mpc' = "done"
    /\ sched' = Finish(sched, MainTask)
    /\ UNCHANGED <<scenario, nworkers, cons, spc, rpc, term, kind, built, stg, arg,
                   fn, farg, fst, fret, out, mres>>
    /\ UNCHANGED cellVars

Combinators == {"then", "chain", "success", "fail"}

\* A chain of NStages stages: Promise::spawn, combinators, and then a sync on
\* the last promise (the caller's own or that of finally_sync), or finally as
\* the last stage.
PromiseInit ==
    /\ scenario = "chain"
    /\ nworkers \in WorkerCounts
    /\ term \in {"sync", "finally"}
    /\ kind \in [Stages -> Combinators \cup {"spawn", "finally"}]
    /\ \A i \in Stages :
          /\ kind[i] = "spawn" <=> i = 1
          /\ kind[i] = "finally" <=> (i = LastStage /\ i > 1 /\ term = "finally")
    /\ cons = [p \in Cells |-> IF p < LastStage THEN p + 1 ELSE MainTask]
    /\ sched = [t \in Tasks |-> IF t = MainTask THEN "ready" ELSE "none"]
    /\ NewCells
    /\ built = 0
    /\ mpc = "build"
    /\ stg = [i \in Stages |-> "none"]
    /\ arg = [i \in Stages |-> NoVal]
    /\ fn = [i \in 0 .. NStages |-> "none"]
    /\ farg = [i \in 0 .. NStages |-> NoVal]
    /\ fst = [i \in 0 .. NStages |-> "idle"]
    /\ fret = [i \in 0 .. NStages |-> NoVal]
    /\ out = [i \in Stages |-> None]
    /\ mres = NoVal

PromiseNext ==
    \/ \E t \in Tasks : Schedule(t)
    \/ MainSpawn
    \/ \E i \in Stages : StageCallSpawned(i)
    \/ \E i \in Stages : StageJoin(i)
    \/ \E i \in Stages : StageUnwrap(i)
    \/ \E i \in Stages, r \in Results \cup CombinatorResults \cup {Unit} :
          StageFnReturn(i, r)
    \/ \E i \in Stages : StageFnPanic(i)
    \/ \E i \in Stages : StagePush(i)
    \/ \E i \in Stages : PushWrite(i)
    \/ \E i \in Stages : PushNotify(i)
    \/ \E i \in Stages : PushReturn(i)
    \/ \E i \in Stages : PopWaitBlock(i)
    \/ \E i \in Stages : PopWaitOk(i)
    \/ \E i \in Stages : PopSetReceived(i)
    \/ \E i \in Stages : PopTakeRead(i)
    \/ \E i \in Stages : PopTakeClear(i)
    \/ \E i \in Stages : PopUnwrap(i)
    \/ \E i \in Stages : DropCheck(i)
    \/ \E i \in Stages : DropWaitBlock(i)
    \/ \E i \in Stages : DropWaitOk(i)
    \/ \E i \in Stages : DropSetReceived(i)
    \/ \E i \in Stages : DropEnd(i)
    \/ MainSync
    \/ MainSyncUnwrap
    \/ SyncReturn
    \/ FinallySyncCall
    \/ MainFnReturn
    \/ MainFnPanic
    \/ FinallyDiscard
    \/ FinallyReturn

PromiseSpec == PromiseInit /\ [][PromiseNext]_vars

\* The scheduler keeps running coroutines while one can take a step.
PromiseFair == PromiseSpec /\ WF_vars(PromiseNext)

----------------------------------------------------------------------------
\* The receiver is past a successful wait inside pop.
InPop(p) == rpc[p] \in {"pop_flag", "pop_take", "taking", "taken"}

\* C1: a pop that got past its wait reads the cell only after push finished
\* writing it: it finds the pushed outcome there, never an empty or a
\* half-written cell, and the outcome pop returns is the one that was pushed.
C1_PopReadsPushed ==
    \A p \in Pairs :
        /\ InPop(p) => spc[p] \in {"notified", "done"} /\ writes[p] = 1
        /\ rpc[p] \in {"pop_flag", "pop_take"} => data[p] = pushed[p]
        /\ rpc[p] \in {"taking", "taken"} => got[p] = pushed[p]
        /\ how[p] = "pop" => got[p] \in Outcomes
        /\ rpc[p] = "returned" => popped[p] = pushed[p] /\ popped[p] \in Outcomes

C1_Witness ==
    /\ rpc[1] = "returned" /\ popped[1] = OkOf(Plain(1)) /\ waits[1] = 1
    /\ rpc[2] = "returned" /\ popped[2] = PanicErr /\ waits[2] = 1

\* C2: the drop of a receiver that was never popped does not end before the
\* paired push has written the cell and called notify.
C2_DropAfterNotify ==
    \A p \in Pairs :
        (how[p] = "drop" /\ rpc[p] \in {"drop_flag", "drop_end", "dropped"})
            => /\ notifies[p] = 1
               /\ writes[p] = 1
               /\ spc[p] \in {"notified", "done"}
               /\ data[p] = pushed[p]

C2_Witness ==
    /\ rpc[1] = "dropped" /\ how[1] = "drop"
    /\ rpc[2] = "drop_wait" /\ sched[cons[2]] = "blocked" /\ spc[2] = "writing"

\* C3 as stated: once push has stored an outcome the slot is never empty again.
C3_SlotNeverEmptied ==
    \A p \in Pairs : writes[p] >= 1 => data[p] # None

\* C3, amended: the slot is filled once, by push, and never refilled; the only
\* step that takes the outcome out again is the take() of pop, once; the drop
\* of a receiver leaves the slot as it is.
C3_SlotEmptiedOnlyByTake ==
    [][\A p \in Pairs :
          /\ (data[p] \in Outcomes /\ data'[p] # data[p])
                => rpc[p] = "taking" /\ data'[p] = None /\ cleared[p] = 0
          /\ (data[p] = None /\ data'[p] # None)
                => spc[p] = "live" /\ writes[p] = 0 /\ cleared[p] = 0
          /\ (data[p] = Torn /\ data'[p] # Torn)
                => data'[p] = pushed[p] /\ writes[p] = 0]_vars

C3_Witness ==
    /\ rpc[1] = "returned" /\ writes[1] = 1 /\ cleared[1] = 1 /\ data[1] = None
    /\ rpc[2] = "dropped" /\ writes[2] = 1 /\ cleared[2] = 0 /\ data[2] = pushed[2]

\* C4: the slot of a pair is written at most once and its barrier notified at
\* most once; a finished push has done each exactly once.
C4_OneWriteOneNotify ==
    \A p \in Pairs :
        /\ writes[p] <= 1
        /\ notifies[p] <= 1
        /\ notifies[p] <= writes[p]
        /\ spc[p] \in {"notified", "done"} => writes[p] = 1 /\ notifies[p] = 1
        /\ spc[p] = "dropped" => writes[p] = 0 /\ notifies[p] = 0

C4_Witness ==
    /\ spc[1] = "done" /\ writes[1] = 1 /\ notifies[1] = 1
    /\ spc[2] = "done" /\ writes[2] = 1 /\ notifies[2] = 1

\* C5: the sender is never inside its write of the slot while the receiver is
\* at or inside its take of the same slot, and a take never meets a slot that
\* is being written.
C5_NoConcurrentAccess ==
    \A p \in Pairs :
        /\ ~(spc[p] = "writing" /\ rpc[p] \in {"pop_take", "taking"})
        /\ rpc[p] \in {"pop_take", "taking"} => data[p] # Torn

C5_Witness ==
    /\ rpc[1] = "taking"
    /\ spc[2] = "writing" /\ rpc[2] = "pop_wait" /\ sched[cons[2]] = "blocked"

\* C6: when the sender is destroyed without a push and the wait of pop reports
\* broken, pop returns no outcome: the caller ends in a panic (or an abort).
\* A pushed Err(panic) is returned as an outcome instead.
C6_BrokenWaitIsFatal ==
    \A p \in Pairs :
        /\ spc[p] = "dropped" => /\ rpc[p] # "returned"
                                 /\ how[p] # "pop"
                                 /\ ~InPop(p)
                                 /\ popped[p] = None
        /\ how[p] = "unwind" => spc[p] = "dropped" /\ broken[p]
        /\ (rpc[p] = "returned" /\ popped[p] = PanicErr) => pushed[p] = PanicErr

C6_Witness ==
    /\ spc[1] = "dropped" /\ how[1] = "unwind" /\ rpc[1] = "aborted"
    /\ rpc[2] = "returned" /\ popped[2] = PanicErr

\* C7: with one worker thread, a coroutine that calls pop before the producer
\* has run suspends only itself: the producer still runs, and unless it
\* destroys the sender (or the process aborts) the pop returns.
C7_SingleWorkerPopReturns ==
    \A p \in Pairs :
        (nworkers = 1 /\ rpc[p] = "pop_wait" /\ spc[p] = "live" /\ sched[p] = "ready")
            ~> (rpc[p] = "returned" \/ spc[p] = "dropped" \/ Aborted)

C7_Witness ==
    /\ nworkers = 1
    /\ rpc[1] = "returned" /\ waits[1] = 1 /\ popped[1] = OkOf(Plain(1))
    /\ rpc[2] = "pop_wait" /\ sched[cons[2]] = "blocked" /\ spc[2] = "written"

RECURSIVE SumPopped(_)
\* The sum of the values popped from pairs 1..n.
SumPopped(n) == IF n = 0 THEN 0 ELSE popped[n].val.n + SumPopped(n - 1)

\* C8: with the receivers popped in a fixed order and the producers running
\* in any order, every pop returns, each with the outcome of its own pair; if
\* every producer pushed Ok(1) the popped values add up to the number of pairs.
C8_OrderedPopsAllReturn ==
    <>[](scenario = "ordered" =>
            /\ \A p \in Pairs : rpc[p] = "returned" /\ popped[p] = pushed[p]
            /\ (\A p \in Pairs : pushed[p] = OkOf(Plain(1))) => SumPopped(NPairs) = NPairs)

C8_Witness ==
    /\ scenario = "ordered"
    /\ \A p \in Pairs : rpc[p] = "returned" /\ popped[p] = OkOf(Plain(1))
    /\ SumPopped(NPairs) = NPairs
    /\ \E p \in Pairs : waits[p] = 1 /\ sched[p] = "finished"

\* C9 as stated: finally(f) does not return to its caller before f has
\* completed.
C9_FinallyReturnsAfterF ==
    (term = "finally" /\ mpc = "done") => fst[LastStage] \in {"returned", "panicked"}

\* C9, amended: finally(f) does not return before the work it spawned has
\* finished and pushed its outcome.  If that work called f, f has completed;
\* f is left uncalled only when the predecessor's work panicked, and then the
\* spawned work panics in its join and finally returns without f having run.
C9_FinallyReturnsAfterWork ==
    (term = "finally" /\ mpc = "done") =>
        /\ rpc[LastStage] = "dropped"
        /\ spc[LastStage] \in {"notified", "done"}
        /\ stg[LastStage] = "result"
        /\ fst[LastStage] # "running"
        /\ fst[LastStage] = "idle" =>
              /\ popped[LastStage - 1] = PanicErr
              /\ out[LastStage] = PanicErr

C9_Witness ==
    /\ term = "finally" /\ mpc = "done"
    /\ fst[LastStage] = "returned" /\ waits[LastStage] = 1
    /\ pushed[LastStage] = OkOf(Unit)

\* A stage after the first whose user function panicked.
PanickedCombinator(i) == i > 1 /\ fst[i] = "panicked"

\* C10: when the function of a combinator of the chain panics, no function of
\* a later stage is invoked, and sync on the final promise never yields a
\* Result: the caller of sync ends in a panic.
C10_PanicReachesSync ==
    /\ [](\A i \in Stages : PanickedCombinator(i) =>
            /\ \A j \in Stages : j > i => fn[j] = "none" /\ fst[j] = "idle"
            /\ fn[0] = "none"
            /\ mres = NoVal
            /\ term # "finally" => mpc # "done")
    /\ \A i \in Stages :
          (PanickedCombinator(i) /\ term # "finally") ~> (mpc = "panicked")

C10_Witness ==
    /\ term = "sync" /\ mpc = "panicked"
    /\ kind[2] = "then" /\ fst[2] = "panicked"
    /\ kind[3] = "chain" /\ fst[3] = "idle" /\ popped[3] = PanicErr

\* The call of sync on the last promise is over: it returned or it panicked.
SyncOver == term # "finally" /\ mpc \in {"synced", "fs_call", "done", "panicked"}

\* The caller of sync panicked inside sync (not inside the f of finally_sync).
SyncPanicked == mpc = "panicked" /\ fst[0] = "idle"

\* C11: sync ends in one of three ways that are never mixed up: the work
\* returned Ok(v) and sync returns Ok(v); it returned Err(e) and sync returns
\* Err(e), the caller not panicking; it panicked and the caller of sync
\* panicks, sync yielding no Result at all.
C11_SyncThreeResults ==
    SyncOver =>
        /\ out[LastStage] \in PromiseOutcomes
        /\ pushed[LastStage] = out[LastStage]
        /\ out[LastStage] = PanicErr <=> SyncPanicked
        /\ SyncPanicked => mres = NoVal
        /\ ~SyncPanicked => /\ mres = out[LastStage].val
                            /\ mres.res \in {"Ok", "Err"}
                            /\ out[LastStage].tag = "Ok"

C11_Witness ==
    /\ term = "sync" /\ mpc = "done"
    /\ out[LastStage] = OkOf(RErr(4)) /\ mres = RErr(4)
    /\ waits[LastStage] = 1

\* The work of stage i got a Result from its join and went on with it.
Resolved(i) == stg[i] \in {"calling", "result"} /\ arg[i] # NoVal

\* The outcome of stage i reached its cell.
Pushed(i) == spc[i] \in {"notified", "done"}

\* C12: then(on_ok, on_err) invokes one of its two functions, once: on_ok with
\* the value of an Ok predecessor, on_err with the error of an Err one; the
\* function once chosen is never replaced by the other, and the new promise
\* resolves to what the invoked function returned.
C12_ThenInvokesOne ==
    /\ [](\A i \in Stages : (kind[i] = "then" /\ Resolved(i)) =>
            /\ arg[i] = popped[i - 1].val
            /\ arg[i].res = "Ok" => fn[i] = "ft"
            /\ arg[i].res = "Err" => fn[i] = "fe"
            /\ farg[i] = Plain(arg[i].n)
            /\ fst[i] # "idle"
            /\ fst[i] = "returned" => out[i] = OkOf(fret[i])
            /\ (fst[i] = "returned" /\ Pushed(i)) => data[i] \in {OkOf(fret[i]), None})
    /\ [][\A i \in Stages : kind[i] = "then" =>
            /\ fn'[i] # fn[i] => fn[i] = "none" /\ fst[i] = "idle"
            /\ fst'[i] # fst[i] => fst[i] \in {"idle", "running"}
            /\ fst[i] = "running" => fn'[i] = fn[i] /\ farg'[i] = farg[i]]_vars

C12_Witness ==
    /\ kind[2] = "then" /\ arg[2] = ROk(1) /\ fn[2] = "ft" /\ fret[2] = RErr(4)
    /\ kind[3] = "then" /\ arg[3] = RErr(4) /\ fn[3] = "fe" /\ fret[3] = ROk(3)
    /\ popped[3] = OkOf(ROk(3))

\* C13: success(f) on a predecessor that resolved to Err(e) never invokes f
\* and resolves to Err(e), e unchanged; fail(f) on a predecessor that resolved
\* to Ok(v) never invokes f and resolves to Ok(v), v unchanged.
C13_PassThrough ==
    \A i \in Stages :
        ((kind[i] = "success" /\ Resolved(i) /\ arg[i].res = "Err")
          \/ (kind[i] = "fail" /\ Resolved(i) /\ arg[i].res = "Ok")) =>
            /\ arg[i] = popped[i - 1].val
            /\ fn[i] = "none" /\ fst[i] = "idle" /\ farg[i] = NoVal
            /\ stg[i] = "result"
            /\ out[i] = OkOf(arg[i])
            /\ out[i] = pushed[i - 1]
            /\ spc[i] # "live" => pushed[i] = pushed[i - 1]

C13_Witness ==
    /\ kind[2] = "fail" /\ arg[2] = ROk(1) /\ fn[2] = "none"
    /\ kind[3] = "success" /\ fn[3] = "f" /\ fret[3] = RErr(4)
    /\ mres = RErr(4) /\ mpc = "done"

\* The other half of the case of C13: success passing an Err on.
C13_WitnessErr ==
    /\ kind[2] = "success" /\ arg[2] = RErr(2) /\ fn[2] = "none"
    /\ pushed[2] = OkOf(RErr(2))

\* C14: chain(f) invokes f once, with the whole Result of the predecessor,
\* Ok or Err alike, and the new promise resolves to what f returned.
C14_ChainWholeResult ==
    /\ [](\A i \in Stages : (kind[i] = "chain" /\ Resolved(i)) =>
            /\ arg[i] = popped[i - 1].val
            /\ arg[i].res \in {"Ok", "Err"}
            /\ fn[i] = "f" /\ farg[i] = arg[i]
            /\ fst[i] # "idle"
            /\ fst[i] = "returned" => out[i] = OkOf(fret[i])
            /\ (fst[i] = "returned" /\ spc[i] # "live") => pushed[i] = OkOf(fret[i]))
    /\ [][\A i \in Stages : kind[i] = "chain" =>
            /\ fn'[i] # fn[i] => fn[i] = "none" /\ fst[i] = "idle"
            /\ fst'[i] # fst[i] => fst[i] \in {"idle", "running"}]_vars

C14_Witness ==
    /\ kind[2] = "chain" /\ farg[2] = RErr(2) /\ fret[2] = ROk(3)
    /\ kind[3] = "chain" /\ farg[3] = ROk(3) /\ fret[3] = RErr(4)
    /\ mres = RErr(4)

\* The coroutines there are in a chain: the caller and one per stage.
ChainTasks == {MainTask} \cup Stages

\* C15: finally_sync(f) spawns no work of its own; f runs in the caller's
\* coroutine, on the Result its sync returned, and finally_sync returns only
\* after f has returned: it behaves as f(self.sync()).
C15_FinallySyncInCaller ==
    /\ \A t \in Tasks \ ChainTasks : sched[t] = "none"
    /\ term = "finally_sync" =>
          /\ built = NStages
          /\ rpc[LastStage] = "returned" /\ popped[LastStage] # PanicErr
          /\ mres = popped[LastStage].val
          /\ fn[0] = "f" /\ farg[0] = mres
          /\ fst[0] = "running" <=> mpc = "fs_call"
          /\ fst[0] = "running" => sched[MainTask] = "running"
          /\ mpc = "done" <=> fst[0] = "returned"
          /\ mpc = "panicked" <=> fst[0] = "panicked"
    /\ fst[0] # "idle" => term = "finally_sync"
    /\ (term # "finally" /\ mpc = "panicked" /\ fst[0] = "idle") =>
          /\ popped[LastStage] = PanicErr
          /\ fn[0] = "none"

C15_Witness ==
    /\ term = "finally_sync" /\ mpc = "done"
    /\ fn[0] = "f" /\ farg[0] = RErr(4) /\ fst[0] = "returned"
    /\ \A i \in Stages : sched[i] = "finished"

\* The sender still holds its reference: it has not been consumed by a push
\* that returned, nor destroyed.
SenderHolds(p) == spc[p] \in {"live", "writing", "written", "notified"}

\* The receiver still holds its reference: its drop has not ended.
ReceiverHolds(p) == rpc[p] \notin {"returned", "dropped", "panicked", "aborted"}

\* C16: the cell lives as long as an end can touch it: its reference count is
\* the number of ends that still hold it, never more than two, so that while
\* push, pop or the receiver's drop is under way the cell has not been
\* destroyed, even when the receiver is gone before push returns.
C16_CellOutlivesEnds ==
    \A p \in Pairs :
        /\ refs[p] \in 0 .. 2
        /\ refs[p] = (IF SenderHolds(p) THEN 1 ELSE 0)
                      + (IF ReceiverHolds(p) THEN 1 ELSE 0)
        /\ spc[p] \in {"writing", "written", "notified"} => refs[p] >= 1
        /\ rpc[p] \notin {"held", "returned", "dropped", "panicked", "aborted"}
              => refs[p] >= 1
        /\ refs[p] = 0 => ~SenderHolds(p) /\ ~ReceiverHolds(p)

C16_Witness ==
    /\ rpc[1] = "returned" /\ spc[1] = "notified" /\ refs[1] = 1
    /\ rpc[2] = "dropped" /\ spc[2] = "done" /\ refs[2] = 0

\* The user function of stage i has been called.
Started(i) == fst[i] # "idle"

\* C17: the function of a combinator starts only after the work of its
\* predecessor is over and its outcome pushed (written and notified); so the
\* functions of a chain run in the order of the stages, none starting before
\* the one before it has finished.
C17_PipelineOrder ==
    \A i \in Stages : (i > 1 /\ Started(i)) =>
        /\ stg[i - 1] = "result"
        /\ fst[i - 1] # "running"
        /\ Pushed(i - 1) /\ writes[i - 1] = 1 /\ notifies[i - 1] = 1
        /\ pushed[i - 1] = out[i - 1]
        /\ rpc[i - 1] = "returned"
        /\ \A j \in Stages : j < i => fst[j] # "running" /\ Pushed(j)

C17_Witness ==
    /\ \A i \in Stages : fst[i] = "returned"
    /\ kind[2] = "success" /\ kind[LastStage] = "finally"
    /\ spc[2] = "notified"

\* Some stage function panicked.
SomePanic == \E i \in Stages : fst[i] = "panicked"

\* sync on the last promise has returned a Result to its caller.
SyncReturned == term # "finally" /\ mpc \in {"synced", "fs_call", "done"}

\* C18: in a chain whose stage functions all return, sync on the last promise
\* returns in the end, with one worker thread as with several: the stages
\* suspended in their join leave the worker to their predecessors.
C18_SyncEventuallyReturns ==
    /\ (term = "sync" /\ mpc = "build") ~> (SyncReturned \/ SomePanic)
    /\ (term = "sync" /\ mpc = "build" /\ nworkers = 1) ~> (SyncReturned \/ SomePanic)
    /\ \A i \in Stages :
          (term # "finally" /\ sched[i] = "blocked") ~> (sched[i] # "blocked")

C18_Witness ==
    /\ nworkers = 1 /\ term = "sync"
    /\ sched[MainTask] = "blocked" /\ rpc[LastStage] = "pop_wait"
    /\ \A i \in Stages : i > 1 => sched[i] = "blocked" /\ rpc[i - 1] = "pop_wait"
    /\ sched[1] = "running" /\ fst[1] = "running"

\* The end of the case of C18: sync returned after every stage function did.
C18_WitnessEnd ==
    /\ nworkers = 1 /\ term = "sync" /\ mpc = "done"
    /\ \A i \in Stages : fst[i] = "returned" /\ waits[i] = 1

\* C19: a receiver consumed by a pop that returned has waited on the barrier
\* once: pop set the received flag before the receiver was destroyed, so the
\* drop at the end of pop did not wait again; a receiver dropped without a pop
\* has waited once too.
C19_ReceiverWaitsOnce ==
    \A p \in Pairs :
        /\ rpc[p] = "returned" => waits[p] = 1 /\ received[p]
        /\ (rpc[p] = "dropped" /\ how[p] = "drop") => waits[p] = 1 /\ received[p]
        /\ how[p] = "pop" => /\ received[p] /\ waits[p] = 1
                             /\ rpc[p] \in {"drop_check", "drop_end", "returned"}
        /\ (how[p] = "drop" /\ rpc[p] \in {"drop_check", "drop_wait"}) => waits[p] = 0

C19_Witness ==
    /\ rpc[1] = "returned" /\ how[1] = "pop" /\ waits[1] = 1 /\ received[1]
    /\ rpc[2] = "dropped" /\ how[2] = "drop" /\ waits[2] = 1 /\ received[2]

\* C20: the received flag is set only after a wait that succeeded.  When the
\* wait of pop reports broken the flag is still false as pop fails, so the
\* drop of the receiver during the failure waits on the same broken barrier
\* again, a second failing wait, and does not skip it.
C20_BrokenPopWaitsTwice ==
    \A p \in Pairs :
        /\ received[p] => notified[p] /\ waits[p] = 1
        /\ how[p] = "unwind" =>
              /\ ~received[p]
              /\ broken[p] /\ ~notified[p]
              /\ rpc[p] \in {"drop_check", "drop_wait", "aborted"}
              /\ rpc[p] \in {"drop_check", "drop_wait"} => waits[p] = 1
              /\ rpc[p] = "aborted" => waits[p] = 2
        /\ rpc[p] = "aborted" => how[p] = "unwind"

C20_Witness ==
    /\ rpc[1] = "aborted" /\ how[1] = "unwind" /\ waits[1] = 2 /\ ~received[1]
    /\ spc[1] = "dropped" /\ broken[1]

====
